---- MODULE Spec2Model ----
(***************************************************************************)
(* Model of ovm2/ovm_main.cc: the OHeap image loader (ReadHeader, Load),   *)
(* the typed views (OHeap::AsStr, Code::AsStr, Code::AsTuple), Frame,      *)
(* the interpreter loop VM::RunFrame, VM::RunMain, func_print and main.    *)
(*                                                                         *)
(* Memory is modelled at byte level: the image file is a sequence of       *)
(* bytes, the slab region is a sequence of bytes, a cell is its four wire  *)
(* fields.  A pointer into the slab region is the byte offset from the     *)
(* region's base; dereferencing it outside the region is undefined         *)
(* behaviour, modelled as a choice between a crash and a garbage value.    *)
(***************************************************************************)
EXTENDS Integers, Sequences, FiniteSets, TLC

\* ------------------------------------------------------------------------
\* Program constants
\* ------------------------------------------------------------------------
TAG_NONE == 0 - 1
TAG_BOOL == 0 - 2
TAG_INT == 0 - 3
TAG_FLOAT == 0 - 4
TAG_STR == 0 - 5
TAG_TUPLE == 0 - 6
TAG_CODE == 0 - 7

kHeader == <<79, 72, 80, 50>>
kHeaderLen == 4
CellSize == 16
SmallValLen == 12

\* opcode.h (CPython 2.7 numbering)
POP_TOP == 1
NOP == 9
RETURN_VALUE == 83
HAVE_ARGUMENT == 90
STORE_NAME == 90
LOAD_CONST == 100
LOAD_NAME == 101
CALL_FUNCTION == 131

\* ------------------------------------------------------------------------
\* Bounds of the model
\* ------------------------------------------------------------------------
\* the longest program over CoreInstructions, and over Instructions
MaxInstr == 3
MaxAnyInstr == 2

\* ------------------------------------------------------------------------
\* Fixed-width integers, little-endian
\* ------------------------------------------------------------------------
Pow16 == 256 * 256
Pow24 == 256 * Pow16
MaxI32 == 2147483647

Min(a, b) == IF a < b THEN a ELSE b

\* s[k] with a 0-based index, as in C
At(s, k) == s[k + 1]

\* the n elements of s from 0-based index k
Slice(s, k, n) == [j \in 1..n |-> s[k + j]]

\* int32_t stored to memory (two's complement; the sign is bit 7 of byte 3)
BytesOfI32(v) ==
  LET w == IF v < 0 THEN (v + MaxI32) + 1 ELSE v
  IN <<w % 256, (w \div 256) % 256, (w \div Pow16) % 256,
       (w \div Pow24) + (IF v < 0 THEN 128 ELSE 0)>>

\* int32_t read from 4 bytes of memory
I32OfBytes(b) ==
  LET w == b[1] + 256 * b[2] + Pow16 * b[3] + Pow24 * (b[4] % 128)
  IN IF b[4] >= 128 THEN (w - MaxI32) - 1 ELSE w

\* int16_t stored to / read from memory
BytesOfI16(v) ==
  LET u == v % Pow16 IN <<u % 256, (u \div 256) % 256>>

I16OfBytes(b) ==
  LET u == b[1] + 256 * b[2]
  IN IF u >= 32768 THEN u - Pow16 ELSE u

RECURSIVE Concat(_)
Concat(ss) == IF ss = <<>> THEN <<>> ELSE Head(ss) \o Concat(Tail(ss))

Zeros(n) == [j \in 1..n |-> 0]

\* ------------------------------------------------------------------------
\* struct Cell: wire layout (16 bytes) and the record held in memory
\*   bytes 0-1 tag, 2 is_slab, 3 small_len, 4-15 small_val;
\*   slab_wire.offset is bytes 12-15, i is bytes 8-15.
\* ------------------------------------------------------------------------
WireCell(tag, is_slab, small_len, raw) ==
  BytesOfI16(tag) \o <<is_slab, small_len>> \o raw

Pad12(b) == b \o Zeros(SmallValLen - Len(b))

NoneCell == WireCell(TAG_NONE, 0, 0, Zeros(SmallValLen))

\* int64_t i: the low word, sign-extended
IntCell(v) ==
  WireCell(TAG_INT, 0, 0,
           Zeros(4) \o BytesOfI32(v) \o (IF v < 0 THEN BytesOfI32(0 - 1) ELSE Zeros(4)))

InlineStrCell(b) == WireCell(TAG_STR, 0, Len(b), Pad12(b))

InlineTupleCell(hs) ==
  WireCell(TAG_TUPLE, 0, Len(hs), Pad12(Concat([j \in 1..Len(hs) |-> BytesOfI32(hs[j])])))

SlabCell(tag, off) == WireCell(tag, 1, 0, Zeros(8) \o BytesOfI32(off))

\* a slab: its 32-bit length, then the payload
StrSlab(b) == BytesOfI32(Len(b)) \o b

HandleSlab(hs) ==
  BytesOfI32(Len(hs)) \o Concat([j \in 1..Len(hs) |-> BytesOfI32(hs[j])])

\* the ptr of a cell that is not slab-backed: bytes 8-15 are payload, not a
\* reference into the slab region; is_slab tells the two apart
NoPtr == 0 - 1

\* one Cell as fread leaves it in the table
ParseCell(b) ==
  [tag |-> I16OfBytes(Slice(b, 0, 2)),
   is_slab |-> At(b, 2),
   small_len |-> At(b, 3),
   raw |-> Slice(b, 4, SmallValLen),
   ptr |-> NoPtr]

\* cell.slab_wire.offset
WireOffset(cell) == I32OfBytes(Slice(cell.raw, 8, 4))

\* cell.i, low word
CellInt(cell) == I32OfBytes(Slice(cell.raw, 4, 4))

\* ------------------------------------------------------------------------
\* Slab region: reads through a resolved reference (base + offset)
\* ------------------------------------------------------------------------
\* the bytes [p, p + n) lie inside the region
InSlab(slabs, p, n) == p >= 0 /\ n >= 0 /\ p + n <= Len(slabs)

\* *reinterpret_cast<int32_t*>(ptr)
SlabI32(slabs, p) == I32OfBytes(Slice(slabs, p, 4))

\* ------------------------------------------------------------------------
\* ReadHeader, Load
\* The outcome of Load on a stream is a record:
\*   res    "ok" (returns true), "fail" (returns false), "null_write"
\*          (fread writes through the NULL malloc returned for a negative size)
\*   slabs, cells   the buffers, Null while not allocated
\*   live   the buffers allocated and not freed
\*   rest   the stream after the last fread
\* ------------------------------------------------------------------------
\* a pointer to a malloc'd buffer: null, or the memory it points to
Null == [null |-> TRUE, mem |-> <<>>]

Buf(m) == [null |-> FALSE, mem |-> m]

LoadResult(res, slabs, cells, num_cells, live, rest) ==
  [res |-> res, slabs |-> slabs, cells |-> cells, num_cells |-> num_cells,
   live |-> live, rest |-> rest]

\* fread(buf, kHeaderLen, 1, f) and memcmp with kHeader
ReadHeader(f) == Len(f) >= kHeaderLen /\ Slice(f, 0, kHeaderLen) = kHeader

\* the stream after ReadHeader's fread
AfterHeader(f) == SubSeq(f, Min(Len(f), kHeaderLen) + 1, Len(f))

\* the first n records of the cell table as fread leaves them
ParseCells(f, n) == [j \in 1..n |-> ParseCell(Slice(f, (j - 1) * CellSize, CellSize))]

\* Patch the offsets into pointers: cells[i].ptr = slabs + slab_offset
PatchCell(cell) ==
  IF cell.is_slab # 0 THEN [cell EXCEPT !.ptr = WireOffset(cell)] ELSE cell

PatchCells(cells) == [j \in 1..Len(cells) |-> PatchCell(cells[j])]

\* the verification loop of Load reads *start for every slab-backed cell
LoadDerefsOutside(slabs, cells) ==
  \E j \in 1..Len(cells) : cells[j].is_slab # 0 /\ ~InSlab(slabs, cells[j].ptr, 4)

\* a faulty Load that accepts the cell records it could read, without the
\* comparison of num_read with num_cells: C9 must fail with it
LoadCellsUnchecked(num_cells, slabs, f) ==
  IF num_cells < 0
    THEN LoadResult(IF Len(f) > 0 THEN "null_write" ELSE "fail",
                    Buf(slabs), Null, 0, {"slabs"}, f)
  ELSE LoadResult("ok", Buf(slabs),
                  Buf(PatchCells(ParseCells(f, Min(num_cells, Len(f) \div CellSize)))),
                  Min(num_cells, Len(f) \div CellSize), {"slabs", "cells"}, <<>>)

\* Load from the malloc of cells on: f is the stream after the slab region
LoadCells(num_cells, slabs, f) ==
  IF num_cells < 0
    THEN LoadResult(IF Len(f) > 0 THEN "null_write" ELSE "fail",
                    Buf(slabs), Null, 0, {"slabs"}, f)
  ELSE IF Min(num_cells, Len(f) \div CellSize) # num_cells
    THEN LoadResult("fail", Buf(slabs), Buf(ParseCells(f, Len(f) \div CellSize)), 0,
                    {"slabs", "cells"}, <<>>)
  ELSE LoadResult("ok", Buf(slabs), Buf(PatchCells(ParseCells(f, num_cells))), num_cells,
                  {"slabs", "cells"}, SubSeq(f, num_cells * CellSize + 1, Len(f)))

\* Load from the malloc of slabs on: f is the stream after the two sizes
LoadSlabs(total_slab_size, num_cells, f) ==
  IF total_slab_size < 0
    THEN LoadResult(IF Len(f) > 0 THEN "null_write" ELSE "fail", Null, Null, 0, {}, f)
  ELSE IF Min(total_slab_size, Len(f)) # total_slab_size
    THEN LoadResult("fail", Buf(f), Null, 0, {"slabs"}, <<>>)
  ELSE LoadCells(num_cells, Slice(f, 0, total_slab_size),
                 SubSeq(f, total_slab_size + 1, Len(f)))

\* Load from the read of num_cells on
LoadNumCells(total_slab_size, f) ==
  IF Len(f) < 4 THEN LoadResult("fail", Null, Null, 0, {}, <<>>)
  ELSE LoadSlabs(total_slab_size, I32OfBytes(Slice(f, 0, 4)), SubSeq(f, 5, Len(f)))

\* Load from the read of total_slab_size on
LoadSlabSize(f) ==
  IF Len(f) < 4 THEN LoadResult("fail", Null, Null, 0, {}, <<>>)
  ELSE LoadNumCells(I32OfBytes(Slice(f, 0, 4)), SubSeq(f, 5, Len(f)))

Load(f) ==
  IF ~ReadHeader(f) THEN LoadResult("fail", Null, Null, 0, {}, AfterHeader(f))
  ELSE LoadSlabSize(AfterHeader(f))

\* ------------------------------------------------------------------------
\* OHeap and the typed views
\* A view is [wild, len, mem]: mem is the memory that starts at the view's
\* data pointer and runs to the end of the object that holds it (the cell's
\* small_val, or the slab region); wild says that the view could only be
\* formed by a read outside the memory the heap owns.
\* ------------------------------------------------------------------------
View(wild, len, mem) == [wild |-> wild, len |-> len, mem |-> mem]

WildView == View(TRUE, 0, <<>>)

\* h indexes the cell table
ValidHandle(heap, h) == h >= 0 /\ h < heap.num_cells_

\* cells_[h]
CellAt(heap, h) == heap.cells_.mem[h + 1]

\* a faulty view whose data start at the length word of the slab, not
\* after it: C14 must fail with it
CellViewFromLen(heap, cell) ==
  IF cell.is_slab # 0
    THEN IF InSlab(heap.slabs_.mem, cell.ptr, 4)
           THEN View(FALSE, SlabI32(heap.slabs_.mem, cell.ptr),
                     SubSeq(heap.slabs_.mem, cell.ptr + 1, Len(heap.slabs_.mem)))
           ELSE WildView
    ELSE View(FALSE, cell.small_len, cell.raw)

\* the is_slab branch shared by OHeap::AsStr, Code::AsStr and Code::AsTuple
CellView(heap, cell) ==
  IF cell.is_slab # 0
    THEN IF InSlab(heap.slabs_.mem, cell.ptr, 4)
           THEN View(FALSE, SlabI32(heap.slabs_.mem, cell.ptr),
                     SubSeq(heap.slabs_.mem, cell.ptr + 5, Len(heap.slabs_.mem)))
           ELSE WildView
    ELSE View(FALSE, cell.small_len, cell.raw)

\* OHeap::AsStr(h, out): the value returned
AsStrOk(heap, h) == CellAt(heap, h).tag = TAG_STR

\* OHeap::AsStr(h, out): *out
AsStr(heap, h) == CellView(heap, CellAt(heap, h))

\* t.handles[k] lies in the memory behind the view
HandleReadable(view, k) == ~view.wild /\ k >= 0 /\ 4 * k + 4 <= Len(view.mem)

\* t.handles[k]
HandleAt(view, k) == I32OfBytes(Slice(view.mem, 4 * k, 4))

\* s.data[k] lies in the memory behind the view
ByteReadable(view, k) == ~view.wild /\ k >= 0 /\ k < Len(view.mem)

\* the s.len bytes at s.data lie in the memory behind the view
StrReadable(view) == ~view.wild /\ view.len >= 0 /\ view.len <= Len(view.mem)

\* the first n bytes of s.data, as fwrite reads them
DataBytes(view, n) == Slice(view.mem, 0, n)

\* the C string at s.data: the bytes up to the first NUL inside mem
RECURSIVE CStr(_)
CStr(mem) ==
  IF mem = <<>> \/ Head(mem) = 0 THEN <<>> ELSE <<Head(mem)>> \o CStr(Tail(mem))

\* Code: the read of slab[field_index] in the code object's field slab
\* stays inside the slab region
FieldReadable(heap, self, field_index) ==
  /\ CellAt(heap, self).is_slab # 0
  /\ InSlab(heap.slabs_.mem, CellAt(heap, self).ptr + 4 * field_index, 4)

\* Code: slab[field_index]
CodeField(heap, self, field_index) ==
  SlabI32(heap.slabs_.mem, CellAt(heap, self).ptr + 4 * field_index)

\* the cell behind a field: "ok", "assert" (the tag assertion fails) or
\* "wild" (its slab is outside the slab region)
FieldCellCheck(heap, cell, tag) ==
  IF cell.tag # tag THEN "assert"
  ELSE IF tag # TAG_INT /\ CellView(heap, cell).wild THEN "wild"
  ELSE "ok"

\* what an accessor of Code does for one field
FieldCheck(heap, self, field_index, tag) ==
  IF ~FieldReadable(heap, self, field_index) THEN "wild"
  ELSE IF ~ValidHandle(heap, CodeField(heap, self, field_index)) THEN "wild"
  ELSE FieldCellCheck(heap, CellAt(heap, CodeField(heap, self, field_index)), tag)

\* Code::AsStr(field_index), Code::AsTuple(field_index)
CodeView(heap, self, field_index) ==
  CellView(heap, CellAt(heap, CodeField(heap, self, field_index)))

\* OHeap::DebugString(h) stays inside the heap's memory
DebugStringOk(heap, h) ==
  /\ ValidHandle(heap, h)
  /\ CellAt(heap, h).tag \in (0 - 7)..0
  /\ CellAt(heap, h).tag = TAG_STR => ~CellView(heap, CellAt(heap, h)).wild

\* The field schema: the tag the accessor of field 1..11 asserts
CodeSchema ==
  <<TAG_INT, TAG_INT, TAG_INT, TAG_INT, TAG_INT,
    TAG_STR, TAG_STR, TAG_STR, TAG_TUPLE, TAG_TUPLE, TAG_TUPLE>>

\* the loop over consts that logs each constant
ConstsLogOk(heap, consts) ==
  \A k \in 0..Min(consts.len - 1, Len(consts.mem) \div 4) :
    HandleReadable(consts, k) /\ DebugStringOk(heap, HandleAt(consts, k))

\* the accessors in the order RunFrame calls them: the first that fails decides
FieldsCheck(heap, self, checks) ==
  IF \E k \in 1..11 : checks[k] = "wild" /\ \A j \in 1..(k - 1) : checks[j] = "ok"
    THEN "wild"
  ELSE IF \E k \in 1..11 : checks[k] = "assert" THEN "assert"
  ELSE IF ~ConstsLogOk(heap, CodeView(heap, self, 11)) THEN "wild"
  ELSE "ok"

\* VM::RunMain up to the loop of RunFrame: AsCode(Last()) and the logged
\* fields.  "ok", "assert" or "wild".
PreambleOf(heap, self) ==
  IF ~ValidHandle(heap, self) THEN "wild"
  ELSE IF CellAt(heap, self).tag # TAG_CODE THEN "assert"
  ELSE FieldsCheck(heap, self,
                   [k \in 1..11 |-> FieldCheck(heap, self, k, CodeSchema[k])])

\* OHeap::Last
Last(heap) == heap.num_cells_ - 1

Preamble(heap) == PreambleOf(heap, Last(heap))

\* ------------------------------------------------------------------------
\* Values a read outside the owned memory may produce: a handle (h), a
\* byte (b), whether a tag equals TAG_STR (s)
\* ------------------------------------------------------------------------
GarbageHandles == {0 - 1, 0, 99}
GarbageBytes == {0, 255}
Garbage == [h : GarbageHandles, b : GarbageBytes, s : BOOLEAN]
NoGarbage == [h |-> 0, b |-> 0, s |-> FALSE]

\* ------------------------------------------------------------------------
\* Frame::LoadName
\* ------------------------------------------------------------------------
kPrint == <<112, 114, 105, 110, 116>>

\* locals_.find(name): locals is a set of <<name, handle>> bindings
HasLocal(locals, name) == \E b \in locals : b[1] = name

LocalOf(locals, name) == (CHOOSE b \in locals : b[1] = name)[2]

\* a faulty lookup that knows no built-in: the scenario of C4 must fail with it
LookupNameNoBuiltin(locals, name) ==
  IF HasLocal(locals, name) THEN LocalOf(locals, name) ELSE 0

\* a faulty lookup that consults the built-in table first: C12 must fail with it
LookupNameBuiltinFirst(locals, name) ==
  IF name = kPrint THEN 0 - 1
  ELSE IF HasLocal(locals, name) THEN LocalOf(locals, name)
  ELSE 0

\* LoadName once AsStr0 has produced the C string name
LookupName(locals, name) ==
  IF HasLocal(locals, name) THEN LocalOf(locals, name)
  ELSE IF name = kPrint THEN 0 - 1
  ELSE 0

NameResult(abort, handle, ub) == [abort |-> abort, handle |-> handle, ub |-> ub]

\* LoadName(h): abort is the failure of assert(name != nullptr)
LoadName(heap, locals, h, g) ==
  IF ~ValidHandle(heap, h)
    THEN IF g.s THEN NameResult(FALSE, LookupName(locals, <<g.b>>), {"cell_wild"})
         ELSE NameResult(TRUE, 0, {"cell_wild"})
  ELSE IF CellAt(heap, h).tag # TAG_STR THEN NameResult(TRUE, 0, {})
  ELSE IF CellView(heap, CellAt(heap, h)).wild
    THEN NameResult(FALSE, LookupName(locals, <<g.b>>), {"str_wild"})
  ELSE NameResult(FALSE, LookupName(locals, CStr(CellView(heap, CellAt(heap, h)).mem)), {})

\* ------------------------------------------------------------------------
\* VM::RunFrame: fetch and decode
\* ------------------------------------------------------------------------
\* bytecode[k] as the unsigned byte in memory
CodeByte(code, k, g) == IF ByteReadable(code, k) THEN At(code.mem, k) ELSE g.b

\* bytecode[k] as a char promoted to int: the build decides whether char is signed
CharToInt(b, charSigned) == IF charSigned /\ b >= 128 THEN b - 256 ELSE b

\* oparg = bytecode[i] + bytecode[i+1]*256, i being the cursor after the opcode
Operand(code, i, charSigned, g) ==
  CharToInt(CodeByte(code, i, g), charSigned)
    + CharToInt(CodeByte(code, i + 1, g), charSigned) * 256

\* a decoding that takes the operand of LOAD_NAME for the next cursor, as a
\* jump would
DecodedJumping(op, oparg, i, wild) ==
  [op |-> op, oparg |-> oparg, i |-> IF op = LOAD_NAME THEN oparg ELSE i, wild |-> wild]

Decoded(op, oparg, i, wild) == [op |-> op, oparg |-> oparg, i |-> i, wild |-> wild]

\* the decoding once the opcode is fetched
DecodeOp(code, i, oparg, charSigned, g, op) ==
  IF op >= HAVE_ARGUMENT
    THEN Decoded(op, Operand(code, i + 1, charSigned, g), i + 3,
                 \E k \in i..(i + 2) : ~ByteReadable(code, k))
    ELSE Decoded(op, oparg, i + 1, ~ByteReadable(code, i))

\* the instruction at cursor i: op, oparg (kept when op has no argument),
\* the cursor after it, and whether a byte was read outside the memory
Decode(code, i, oparg, charSigned, g) ==
  DecodeOp(code, i, oparg, charSigned, g, CodeByte(code, i, g))

\* ------------------------------------------------------------------------
\* VM::DebugHandleArray reads the tag of every non-negative handle
\* ------------------------------------------------------------------------
DebugHandleArrayOk(heap, handles) ==
  \A j \in 1..Len(handles) :
    handles[j] >= 0 =>
      ValidHandle(heap, handles[j]) /\ CellAt(heap, handles[j]).tag \in (0 - 7)..0

\* ------------------------------------------------------------------------
\* func_print: [why, rets, out, ub]
\* ------------------------------------------------------------------------
kNewlines == <<10, 10>>

PrintResult(why, rets, out, ub) == [why |-> why, rets |-> rets, out |-> out, ub |-> ub]

\* fwrite(s.data, sizeof(char), s.len, stdout); puts("\n"); rets->push_back(0)
PrintStr(s, out, g, ub) ==
  IF StrReadable(s)
    THEN PrintResult("Not", <<0>>, out \o DataBytes(s, s.len) \o kNewlines, ub)
    ELSE PrintResult("Not", <<0>>, out \o <<g.b>> \o kNewlines, ub \cup {"str_wild"})

\* a faulty func_print that ignores what AsStr returns: C13 must fail with it
PrintArgUnchecked(heap, a0, out, g, ub) ==
  IF ValidHandle(heap, a0) THEN PrintStr(AsStr(heap, a0), out, g, ub)
  ELSE PrintStr(WildView, out, g, ub \cup {"cell_wild"})

\* heap.AsStr(a0, &s) and what follows
PrintArg(heap, a0, out, g, ub) ==
  IF ValidHandle(heap, a0)
    THEN IF AsStrOk(heap, a0) THEN PrintStr(AsStr(heap, a0), out, g, ub)
         ELSE PrintResult("Exception", <<>>, out, ub)
    ELSE IF g.s THEN PrintStr(WildView, out, g, ub \cup {"cell_wild"})
         ELSE PrintResult("Exception", <<>>, out, ub \cup {"cell_wild"})

func_print(heap, args, out, g) ==
  IF args = <<>> THEN PrintArg(heap, g.h, out, g, {"args_empty"})
  ELSE PrintArg(heap, args[1], out, g, {})

\* ------------------------------------------------------------------------
\* VM::RunFrame: the cases of the switch.  Each yields the value stack, the
\* control signal, the output, the arguments func_print was called with
\* (called), the undefined behaviour it ran into (ub) and whether an
\* assertion failed (abort).
\* ------------------------------------------------------------------------
ExecResult(value_stack, why, out, called, ub, abort) ==
  [value_stack |-> value_stack, why |-> why, out |-> out, called |-> called,
   ub |-> ub, abort |-> abort]

\* case LOAD_CONST
ExecLoadConst(consts, value_stack, why, out, oparg, g) ==
  IF HandleReadable(consts, oparg)
    THEN ExecResult(Append(value_stack, HandleAt(consts, oparg)), why, out, <<>>, {}, FALSE)
    ELSE ExecResult(Append(value_stack, g.h), why, out, <<>>, {"const_wild"}, FALSE)

\* value_stack.push_back(h) with the h LoadName returned
PushName(r, value_stack, why, out, ub) ==
  IF r.abort THEN ExecResult(value_stack, why, out, <<>>, ub \cup r.ub, TRUE)
  ELSE ExecResult(Append(value_stack, r.handle), why, out, <<>>, ub \cup r.ub, FALSE)

\* case LOAD_NAME
ExecLoadName(heap, names, locals, value_stack, why, out, oparg, g) ==
  IF HandleReadable(names, oparg)
    THEN PushName(LoadName(heap, locals, HandleAt(names, oparg), g),
                  value_stack, why, out, {})
    ELSE PushName(LoadName(heap, locals, g.h, g), value_stack, why, out, {"name_wild"})

\* case POP_TOP; pop_back() on an empty vector leaves a vector whose
\* contents are not defined
ExecPopTop(value_stack, why, out, g) ==
  IF value_stack = <<>>
    THEN ExecResult(IF g.s THEN <<>> ELSE <<g.h>>, why, out, <<>>, {"pop_empty"}, FALSE)
    ELSE ExecResult(SubSeq(value_stack, 1, Len(value_stack) - 1), why, out, <<>>, {}, FALSE)

\* the argument vector of CALL_FUNCTION: back() and pop_back(), num_args times
PoppedArgs(value_stack, num_args, g) ==
  [j \in 1..num_args |->
     IF j <= Len(value_stack) THEN value_stack[Len(value_stack) - j + 1] ELSE g.h]

\* the value stack after the arguments are popped
AfterArgs(value_stack, num_args) ==
  SubSeq(value_stack, 1, Len(value_stack) - Min(num_args, Len(value_stack)))

\* the three calls of DebugHandleArray
CallDebugUb(heap, value_stack, args, after_args) ==
  IF /\ DebugHandleArrayOk(heap, value_stack)
     /\ DebugHandleArrayOk(heap, args)
     /\ DebugHandleArrayOk(heap, after_args)
  THEN {} ELSE {"debug_wild"}

\* why = func_print(...); break without a push when why is not Not
CallNative(after_func, args, r, ub) ==
  IF r.why # "Not"
    THEN ExecResult(after_func, r.why, r.out, <<args>>, ub \cup r.ub, FALSE)
    ELSE ExecResult(Append(after_func, r.rets[1]), r.why, r.out, <<args>>,
                    ub \cup r.ub, FALSE)

\* the call once the callee handle is popped
CallDispatch(heap, func_handle, args, after_func, why, out, g, ub) ==
  IF func_handle < 0
    THEN CallNative(after_func, args, func_print(heap, args, out, g), ub)
    ELSE ExecResult(Append(after_func, 0), why, out, <<>>, ub, FALSE)

\* Pop the function itself off
CallPopFunc(heap, args, after_args, why, out, g, ub) ==
  IF after_args = <<>>
    THEN CallDispatch(heap, g.h, args, <<>>, why, out, g, ub \cup {"pop_empty"})
    ELSE CallDispatch(heap, after_args[Len(after_args)], args,
                      SubSeq(after_args, 1, Len(after_args) - 1), why, out, g, ub)

\* the call once num_args is known
CallWith(heap, value_stack, why, out, num_args, g) ==
  CallPopFunc(heap, PoppedArgs(value_stack, num_args, g),
              AfterArgs(value_stack, num_args), why, out, g,
              (IF num_args > Len(value_stack) THEN {"pop_empty"} ELSE {})
                \cup CallDebugUb(heap, value_stack, PoppedArgs(value_stack, num_args, g),
                                 AfterArgs(value_stack, num_args)))

\* oparg & 0xff
NumArgs(oparg) == oparg % 256

\* (oparg >> 8) & 0xff
NumKwargs(oparg) == (oparg \div 256) % 256

\* case CALL_FUNCTION; num_kwargs is computed and not used
ExecCallFunction(heap, value_stack, why, out, oparg, g) ==
  CallWith(heap, value_stack, why, out, NumArgs(oparg), g)

\* case RETURN_VALUE
ExecReturnValue(value_stack, why, out) ==
  ExecResult(value_stack, "Return", out, <<>>, {}, FALSE)

\* an opcode without a case: the switch falls through to n++
ExecOther(value_stack, why, out) ==
  ExecResult(value_stack, why, out, <<>>, {}, FALSE)

\* switch (op)
ExecOp(heap, co, locals, value_stack, why, out, op, oparg, g) ==
  IF op = LOAD_CONST THEN ExecLoadConst(co.consts, value_stack, why, out, oparg, g)
  ELSE IF op = LOAD_NAME
    THEN ExecLoadName(heap, co.names, locals, value_stack, why, out, oparg, g)
  ELSE IF op = POP_TOP THEN ExecPopTop(value_stack, why, out, g)
  ELSE IF op = CALL_FUNCTION THEN ExecCallFunction(heap, value_stack, why, out, oparg, g)
  ELSE IF op = RETURN_VALUE THEN ExecReturnValue(value_stack, why, out)
  ELSE ExecOther(value_stack, why, out)

\* ------------------------------------------------------------------------
\* Heap images: the inputs of Load
\* ------------------------------------------------------------------------
kHello == <<104, 101, 108, 108, 111>>
kX == <<120>>
kM == <<109>>

\* handles of the image's cells
H ==
  [None |-> 0, Int |-> 1, Hello |-> 2, PrintName |-> 3, XName |-> 4, Name |-> 5,
   Bytecode |-> 6, Names |-> 7, Varnames |-> 8, Consts |-> 9, Code |-> 10]

\* the field slab of the code object: fields 1..11
CodeFields ==
  <<H.Int, H.Int, H.Int, H.Int, H.Int, H.Name, H.Name, H.Bytecode,
    H.Names, H.Varnames, H.Consts>>

\* a string cell: inline, or slab-backed at offset off when slab is not empty
StrCell(b, slab, off) == IF slab = <<>> THEN InlineStrCell(b) ELSE SlabCell(TAG_STR, off)

\* the image with the slabs laid out: code fields, "hello", bytecode
ImageWith(code, names, consts, codeSlab, helloSlab, bcSlab) ==
  [magic |-> kHeader,
   slab |-> codeSlab \o helloSlab \o bcSlab,
   cells |-> <<NoneCell,
               IntCell(0),
               StrCell(kHello, helloSlab, Len(codeSlab)),
               InlineStrCell(kPrint),
               InlineStrCell(kX),
               InlineStrCell(kM),
               StrCell(code, bcSlab, Len(codeSlab) + Len(helloSlab)),
               InlineTupleCell(names),
               InlineTupleCell(<<>>),
               InlineTupleCell(consts),
               SlabCell(TAG_CODE, 0)>>]

\* An image holding one code object with the bytecode `code`, the names
\* and the constants given.  A string longer than small_val goes to a slab;
\* helloSlab puts "hello" in a slab as well.
ImageFor(code, names, consts, helloSlab) ==
  ImageWith(code, names, consts, HandleSlab(CodeFields),
            IF helloSlab THEN StrSlab(kHello) ELSE <<>>,
            IF Len(code) > SmallValLen THEN StrSlab(code) ELSE <<>>)

\* the image with the names ("print", "x") and the constants ("hello", 0)
ImageOf(code, helloSlab) ==
  ImageFor(code, <<H.PrintName, H.XName>>, <<H.Hello, H.Int>>, helloSlab)

\* the image with the names ("print") and the constants ("hello")
ScenarioImage(code, helloSlab) == ImageFor(code, <<H.PrintName>>, <<H.Hello>>, helloSlab)

\* the file: header, sizes, slab region, cell records
Serialize(img, total_slab_size, num_cells) ==
  img.magic \o BytesOfI32(total_slab_size) \o BytesOfI32(num_cells)
    \o img.slab \o Concat(img.cells)

FileOf(img) == Serialize(img, Len(img.slab), Len(img.cells))

\* the instructions of the implemented opcodes, with operands in range
CoreInstructions ==
  { <<LOAD_CONST, 0, 0>>, <<LOAD_CONST, 1, 0>>, <<LOAD_NAME, 0, 0>>,
    <<POP_TOP>>, <<RETURN_VALUE>>, <<CALL_FUNCTION, 1, 0>> }

\* further operands (outside the tuple, a byte of 0x80 and above, keyword
\* arguments) and opcodes without a case in the switch
Instructions ==
  CoreInstructions \cup
  { <<LOAD_CONST, 2, 0>>, <<LOAD_CONST, 3, 0>>, <<LOAD_CONST, 255, 0>>,
    <<LOAD_NAME, 1, 0>>, <<LOAD_NAME, 2, 0>>, <<NOP>>, <<STORE_NAME, 0, 0>>,
    <<CALL_FUNCTION, 0, 0>>, <<CALL_FUNCTION, 2, 0>>, <<CALL_FUNCTION, 1, 1>> }

\* p followed by one more instruction of ins, for every p of ps
Extend(ps, ins) == ps \cup {p \o x : p \in ps, x \in ins}

\* all bytecode strings of at most n instructions of the set ins
RECURSIVE Programs(_, _)
Programs(ins, n) == IF n = 0 THEN {<<>>} ELSE Extend(Programs(ins, n - 1), ins)

\* the scenario of the specification, and the same call with the callee
\* pushed before its argument
Scenario1 ==
  <<LOAD_CONST, 0, 0, LOAD_NAME, 0, 0, CALL_FUNCTION, 1, 0, RETURN_VALUE>>

ScenarioCall ==
  <<LOAD_NAME, 0, 0, LOAD_CONST, 0, 0, CALL_FUNCTION, 1, 0, RETURN_VALUE>>

\* the call with one keyword argument declared
ScenarioKwargs ==
  <<LOAD_NAME, 0, 0, LOAD_CONST, 0, 0, CALL_FUNCTION, 1, 1, RETURN_VALUE>>

\* print called with the int constant: func_print returns Exception
ScenarioException ==
  <<LOAD_NAME, 0, 0, LOAD_CONST, 1, 0, CALL_FUNCTION, 1, 0, RETURN_VALUE>>

\* a call of print after RETURN_VALUE
ScenarioReturnFirst ==
  <<RETURN_VALUE, LOAD_NAME, 0, 0, LOAD_CONST, 0, 0, CALL_FUNCTION, 1, 0>>

\* the scenarios run with the names ("print", "x") and the constants ("hello", 0)
Scenarios ==
  {Scenario1, ScenarioCall, ScenarioKwargs, ScenarioException, ScenarioReturnFirst}

\* a long program, so that the bytecode is slab-backed
ScenarioLong == ScenarioCall \o <<NOP, NOP, NOP>> \o ScenarioCall

Prefixes(b) == {SubSeq(b, 1, k) : k \in 0..Len(b)}

\* bytecode strings cut inside an instruction
CutPrograms == UNION {Prefixes(p) : p \in Instructions}

\* images damaged in the header, the sizes or a slab offset
BaseImage == ScenarioImage(ScenarioCall, TRUE)

WithOffset(img, h, off) ==
  [img EXCEPT !.cells[h + 1] = SlabCell(ParseCell(img.cells[h + 1]).tag, off)]

DamagedOf(img, total, ncells) ==
  Prefixes(FileOf(img))
    \cup {FileOf([img EXCEPT !.magic = <<79, 72, 80, 49>>])}
    \cup {Serialize(img, t, ncells) : t \in {0 - 1, 0, total - 1, total + CellSize}}
    \cup {Serialize(img, total, c) : c \in {0 - 1, 0, ncells - 1, ncells + 1}}
    \cup {FileOf(WithOffset(img, h, off)) :
            h \in {H.Hello, H.Code},
            off \in {0 - 1, 0 - 4, 4, total - 2, total, total + 4}}

DamagedFiles == DamagedOf(BaseImage, Len(BaseImage.slab), Len(BaseImage.cells))

\* the base image with its constants tuple moved to a slab of its own
SlabTupleImage ==
  [WithOffset(BaseImage, H.Consts, Len(BaseImage.slab))
     EXCEPT !.slab = BaseImage.slab \o HandleSlab(<<H.Hello>>)]

\* the programs whose run depends on the signedness of char, and the scenarios
SmallPrograms ==
  Programs(Instructions, MaxAnyInstr) \cup CutPrograms
    \cup Scenarios \cup {ScenarioLong}

\* the programs that hold an operand byte of 0x80 or above, or are cut inside
\* an instruction: the only ones on which the signedness of char can tell
HighOperand(p) == \E k \in 1..Len(p) : p[k] >= 128 /\ p[k] # CALL_FUNCTION

CharPrograms ==
  {p \in SmallPrograms : HighOperand(p)} \cup CutPrograms
    \cup Scenarios \cup {ScenarioLong}

\* every program of the model
AllPrograms == Programs(CoreInstructions, MaxInstr) \cup SmallPrograms

ProgramFiles(programs) ==
  {FileOf(ImageOf(p, FALSE)) : p \in programs}
    \cup {FileOf(ScenarioImage(p, slab)) :
            p \in {Scenario1, ScenarioCall, ScenarioLong}, slab \in BOOLEAN}

\* ------------------------------------------------------------------------
\* State
\* ------------------------------------------------------------------------
VARIABLES
  pc,           \* where main is: "load", "main", "frame", "exit", "crashed", "aborted"
  f,            \* FILE* f: the bytes not yet read
  heap,         \* OHeap: slabs_, num_cells_, cells_
  live,         \* the malloc'd buffers not freed
  exit_code,    \* what main returned, -1 while it runs
  charSigned,   \* the build: char is a signed type
  call_stack,   \* VM::call_stack_: the number of frames
  locals,       \* Frame::locals_
  co,           \* RunFrame's views of the code object: code, names, consts
  value_stack,  \* Frame::value_stack_
  i,            \* RunFrame: the cursor
  n,            \* RunFrame: the instructions read
  op,           \* RunFrame: the opcode last fetched
  oparg,        \* RunFrame: the operand last decoded
  why,          \* RunFrame: the control signal
  ret,          \* the signal RunFrame returned, "none" before
  out,          \* the bytes func_print wrote to stdout
  calls,        \* the argument vectors func_print was called with
  as_int,       \* the calls of OHeap::AsInt: the handle and the value returned
  ub            \* the undefined behaviours executed so far

vars ==
  <<pc, f, heap, live, exit_code, charSigned, call_stack, locals, co,
    value_stack, i, n, op, oparg, why, ret, out, calls, as_int, ub>>

frameVars ==
  <<call_stack, locals, co, value_stack, i, n, op, oparg, why, ret, out, calls,
    as_int>>

\* OHeap::OHeap(); num_cells_ is not set by the constructor
EmptyHeap == [slabs_ |-> Null, num_cells_ |-> 0, cells_ |-> Null]

InitWith(file) ==
  /\ pc = "load"
  /\ f = file
  /\ heap = EmptyHeap
  /\ live = {}
  /\ exit_code = 0 - 1
  /\ call_stack = 0
  /\ locals = {}
  /\ co = [code |-> View(FALSE, 0, <<>>), names |-> View(FALSE, 0, <<>>),
           consts |-> View(FALSE, 0, <<>>)]
  /\ value_stack = <<>>
  /\ i = 0
  /\ n = 0
  /\ op = 0
  /\ oparg = 0
  /\ why = "Not"
  /\ ret = "none"
  /\ out = <<>>
  /\ calls = <<>>
  /\ as_int = <<>>
  /\ ub = {}

\* The build with a signed char (the x86 default) runs every input; the
\* build with an unsigned char differs only where an operand byte is 0x80
\* or above, and runs the programs that hold one.
Init ==
  \/ /\ charSigned = TRUE
     /\ \E file \in ProgramFiles(AllPrograms) \cup DamagedFiles
                        \cup {FileOf(SlabTupleImage)} : InitWith(file)
  \/ /\ charSigned = FALSE
     /\ \E file \in ProgramFiles(CharPrograms) : InitWith(file)

\* ------------------------------------------------------------------------
\* main: Load
\* ------------------------------------------------------------------------
\* Load returns false, main returns 1
LoadFailTo(r) ==
  /\ r.res = "fail"
  /\ pc' = "exit"
  /\ exit_code' = 1
  /\ f' = r.rest
  /\ live' = r.live
  /\ UNCHANGED <<heap, charSigned, ub, frameVars>>

LoadFail == pc = "load" /\ LoadFailTo(Load(f))

\* fread writes through a NULL buffer
LoadNullWriteTo(r) ==
  /\ r.res = "null_write"
  /\ pc' = "crashed"
  /\ f' = r.rest
  /\ live' = r.live
  /\ ub' = ub \cup {"null_write"}
  /\ UNCHANGED <<heap, exit_code, charSigned, frameVars>>

LoadNullWrite == pc = "load" /\ LoadNullWriteTo(Load(f))

\* heap->Init(slabs, num_cells, cells); Load returns true
LoadOkTo(r) ==
  /\ r.res = "ok"
  /\ pc' = "main"
  /\ f' = r.rest
  /\ live' = r.live
  /\ heap' = [slabs_ |-> r.slabs, num_cells_ |-> r.num_cells, cells_ |-> r.cells]
  /\ ub' = IF LoadDerefsOutside(r.slabs.mem, r.cells.mem)
             THEN ub \cup {"load_wild"} ELSE ub
  /\ UNCHANGED <<exit_code, charSigned, frameVars>>

LoadOk == pc = "load" /\ LoadOkTo(Load(f))

\* the verification loop faults on a reference outside the slab region
LoadCrashTo(r) ==
  /\ r.res = "ok"
  /\ LoadDerefsOutside(r.slabs.mem, r.cells.mem)
  /\ pc' = "crashed"
  /\ f' = r.rest
  /\ live' = r.live
  /\ ub' = ub \cup {"load_wild"}
  /\ UNCHANGED <<heap, exit_code, charSigned, frameVars>>

LoadCrash == pc = "load" /\ LoadCrashTo(Load(f))

\* ------------------------------------------------------------------------
\* VM::RunMain and the head of VM::RunFrame
\* ------------------------------------------------------------------------
\* OHeap::AsInt(h, out): the value returned
AsIntOk(hp, h) == CellAt(hp, h).tag = TAG_STR

\* consts.handles[0 .. consts.len - 1]
ConstHandles(consts) == [k \in 1..consts.len |-> HandleAt(consts, k - 1)]

\* case TAG_INT of OHeap::DebugString: AsInt(h, &i)
IntLog(hp, h) == [h |-> h, ok |-> AsIntOk(hp, h)]

\* the calls of AsInt made while RunFrame logs the constants: one for
\* every constant tagged Int
DebugStringInts(hp, handles) ==
  [k \in 1..Len(SelectSeq(handles, LAMBDA h : CellAt(hp, h).tag = TAG_INT)) |->
     IntLog(hp, SelectSeq(handles, LAMBDA h : CellAt(hp, h).tag = TAG_INT)[k])]

RunMain ==
  /\ pc = "main"
  /\ Preamble(heap) = "ok"
  /\ as_int' = DebugStringInts(heap, ConstHandles(CodeView(heap, Last(heap), 11)))
  /\ pc' = "frame"
  /\ call_stack' = call_stack + 1
  /\ co' = [code |-> CodeView(heap, Last(heap), 8),
            names |-> CodeView(heap, Last(heap), 9),
            consts |-> CodeView(heap, Last(heap), 11)]
  /\ value_stack' = <<>>
  /\ why' = "Not"
  /\ i' = 0
  /\ n' = 0
  /\ UNCHANGED <<f, heap, live, exit_code, charSigned, locals, op, oparg, ret,
                 out, calls, ub>>

\* an assertion of AsCode or of a Code accessor fails
RunMainAbortTo(res) ==
  /\ res # "ok"
  /\ pc' = "aborted"
  /\ ub' = IF res = "wild" THEN ub \cup {"code_wild"} ELSE ub
  /\ UNCHANGED <<f, heap, live, exit_code, charSigned, frameVars>>

RunMainAbort == pc = "main" /\ RunMainAbortTo(Preamble(heap))

\* a read of the code object outside the heap's memory faults
RunMainCrash ==
  /\ pc = "main"
  /\ Preamble(heap) = "wild"
  /\ pc' = "crashed"
  /\ ub' = ub \cup {"code_wild"}
  /\ UNCHANGED <<f, heap, live, exit_code, charSigned, frameVars>>

\* ------------------------------------------------------------------------
\* VM::RunFrame: one iteration of the loop
\* ------------------------------------------------------------------------
Iterated(d, r) ==
  [op |-> d.op, oparg |-> d.oparg, i |-> d.i,
   value_stack |-> r.value_stack, why |-> r.why, out |-> r.out, called |-> r.called,
   ub |-> r.ub \cup (IF d.wild THEN {"code_wild"} ELSE {}),
   abort |-> r.abort]

\* the switch on the decoded instruction d
Execute(d, g) ==
  Iterated(d, ExecOp(heap, co, locals, value_stack, why, out, d.op, d.oparg, g))

\* the iteration at the current state, with g for the values read outside
\* the owned memory
Iteration(g) == Execute(Decode(co.code, i, oparg, charSigned, g), g)

\* the garbage values that matter to this iteration
GarbageHere == IF Iteration(NoGarbage).ub = {} THEN {NoGarbage} ELSE Garbage

\* a call of func_print that frees the cells it was given
HeapFreedByCall(hp, called) ==
  IF called = <<>> THEN hp ELSE [hp EXCEPT !.num_cells_ = 0]

\* the heap after one iteration of the loop: every access of the body goes
\* through a reading accessor, whatever native calls `called` it made
HeapAfterStep(hp, called) == hp

StepTo(r) ==
  /\ ~r.abort
  /\ heap' = HeapAfterStep(heap, r.called)
  /\ op' = r.op
  /\ oparg' = r.oparg
  /\ i' = r.i
  /\ value_stack' = r.value_stack
  /\ why' = r.why
  /\ out' = r.out
  /\ calls' = calls \o r.called
  /\ ub' = ub \cup r.ub
  /\ n' = n + 1

Step ==
  /\ pc = "frame"
  /\ i < co.code.len
  /\ \E g \in GarbageHere : StepTo(Iteration(g))
  /\ UNCHANGED <<pc, f, live, exit_code, charSigned, call_stack, locals, co, ret,
                 as_int>>

StepAbortTo(r) ==
  /\ r.abort
  /\ op' = r.op
  /\ oparg' = r.oparg
  /\ i' = r.i
  /\ ub' = ub \cup r.ub

\* assert(name != nullptr) fails in Frame::LoadName
StepAbort ==
  /\ pc = "frame"
  /\ i < co.code.len
  /\ \E g \in GarbageHere : StepAbortTo(Iteration(g))
  /\ pc' = "aborted"
  /\ UNCHANGED <<f, heap, live, exit_code, charSigned, call_stack, locals, co,
                 value_stack, n, why, ret, out, calls, as_int>>

StepCrashTo(r) ==
  /\ r.ub # {}
  /\ ub' = ub \cup r.ub
  /\ pc' = "crashed"

\* the undefined behaviour of the iteration faults
StepCrash ==
  /\ pc = "frame"
  /\ i < co.code.len
  /\ StepCrashTo(Iteration(NoGarbage))
  /\ UNCHANGED <<f, heap, live, exit_code, charSigned, frameVars>>

\* the loop ends: RunFrame returns why, RunMain returns, main returns 0 and
\* the destructors of vm and heap run
Return ==
  /\ pc = "frame"
  /\ i >= co.code.len
  /\ ret' = why
  /\ pc' = "exit"
  /\ exit_code' = 0
  /\ call_stack' = 0
  /\ live' = {}
  /\ UNCHANGED <<f, heap, charSigned, locals, co, value_stack, i, n, op, oparg,
                 why, out, calls, as_int, ub>>

Next ==
  \/ LoadFail
  \/ LoadNullWrite
  \/ LoadOk
  \/ LoadCrash
  \/ RunMain
  \/ RunMainAbort
  \/ RunMainCrash
  \/ Step
  \/ StepAbort
  \/ StepCrash
  \/ Return

Spec == Init /\ [][Next]_vars

\* the scheduling of a sequential program: a step that can be taken is taken
FairSpec == Spec /\ WF_vars(Next)

\* ------------------------------------------------------------------------
\* Properties
\* ------------------------------------------------------------------------
\* the instruction the loop is about to fetch (pc = "frame", i < num_bytes)
NextInstr == Iteration(NoGarbage)

AtInstr == pc = "frame" /\ i < co.code.len

\* the opcodes with a case in the switch
Implemented(o) == o \in {LOAD_CONST, LOAD_NAME, POP_TOP, CALL_FUNCTION, RETURN_VALUE}

\* the outcomes in which the run is given up
Rejected == {"aborted", "crashed"}

\* the documented change of the stack depth
Delta(o, arg) ==
  IF o \in {LOAD_CONST, LOAD_NAME} THEN 1
  ELSE IF o = POP_TOP THEN 0 - 1
  ELSE IF o = CALL_FUNCTION THEN 1 - (NumArgs(arg) + 1)
  ELSE 0

StartsWith(s, p) == Len(s) >= Len(p) /\ SubSeq(s, 1, Len(p)) = p

\* the handles of a tuple view, and the bytes of the string cell h
TupleHandles(view) == [k \in 1..view.len |-> HandleAt(view, k - 1)]

StrOf(h) == DataBytes(AsStr(heap, h), AsStr(heap, h).len)

StrsOf(view) == [k \in 1..view.len |-> StrOf(HandleAt(view, k - 1))]

\* RunFrame has returned from the code object with this bytecode, the
\* constants ("hello") and the names ("print")
RanScenario(code) ==
  /\ pc = "exit"
  /\ ret # "none"
  /\ DataBytes(co.code, co.code.len) = code
  /\ StrsOf(co.consts) = <<kHello>>
  /\ StrsOf(co.names) = <<kPrint>>

\* func_print was called once, with the "hello" cell as its only argument
PrintedHelloCell ==
  /\ Len(calls) = 1
  /\ Len(calls[1]) = 1
  /\ ValidHandle(heap, calls[1][1])
  /\ AsStrOk(heap, calls[1][1])
  /\ StrOf(calls[1][1]) = kHello

\* C1: once RETURN_VALUE has set the signal to Return, the loop fetches no
\* further instruction and the value stack does not change (stated of the
\* steps free of undefined behaviour).
C1_ReturnEndsLoop ==
  [][(pc = "frame" /\ why = "Return" /\ ub' = {})
       => (i' = i /\ n' = n /\ value_stack' = value_stack)]_vars

\* C2: once the signal is not Not it is never reset nor replaced, and it is
\* the signal RunFrame returns (stated of the steps free of undefined
\* behaviour).
C2_FirstSignalReturned ==
  [][(pc = "frame" /\ why # "Not" /\ ub' = {})
       => (why' = why /\ (ret' # ret => ret' = why))]_vars

\* C3: every executed instruction of the implemented set changes the depth
\* of the value stack by its documented delta (a CALL_FUNCTION whose native
\* callee raised is not a successful one), so that the depth after a
\* sequence is the initial depth plus the sum of the deltas.
C3_StackDiscipline ==
  [][(/\ pc = "frame"
      /\ n' = n + 1
      /\ Implemented(op')
      /\ ~(op' = CALL_FUNCTION /\ calls' # calls /\ why' = "Exception"))
       => Len(value_stack') = Len(value_stack) + Delta(op', oparg')]_vars

\* C4 (as stated): the run of LOAD_CONST 0; LOAD_NAME 0; CALL_FUNCTION (1,0);
\* RETURN_VALUE calls print with the "hello" cell, writes hello and returns
\* Return.
C4_Scenario1PrintsHello ==
  RanScenario(Scenario1)
    => (PrintedHelloCell /\ StartsWith(out, kHello) /\ ret = "Return")

\* C4 (amended): the run of LOAD_NAME 0; LOAD_CONST 0; CALL_FUNCTION (1,0);
\* RETURN_VALUE, with the callee pushed before its argument, calls print
\* once with the "hello" cell, writes hello and two newlines, and returns
\* Return.
C4_CalleeFirstPrintsHello ==
  RanScenario(ScenarioCall)
    => (PrintedHelloCell /\ out = kHello \o kNewlines /\ ret = "Return")

C4_Witness ==
  RanScenario(ScenarioCall) /\ PrintedHelloCell /\ ret = "Return"
    /\ value_stack = <<0>>

\* C5: a CALL_FUNCTION with a non-zero keyword-argument count pops nothing,
\* calls nothing, pushes nothing, and the run is given up (stated of the
\* calls that find the callee and the positional arguments on the stack).
C5_KwargsRejected ==
  [][(/\ AtInstr
      /\ NextInstr.op = CALL_FUNCTION
      /\ NumKwargs(NextInstr.oparg) # 0
      /\ Len(value_stack) > NumArgs(NextInstr.oparg)
      /\ ub' = {})
       => (pc' \in Rejected /\ value_stack' = value_stack /\ calls' = calls)]_vars

\* C6: an opcode outside the implemented set is rejected; the loop does not
\* go on past it (stated of the steps free of undefined behaviour).
C6_UnimplementedRejected ==
  [][(AtInstr /\ ~Implemented(NextInstr.op) /\ ub' = {}) => pc' \in Rejected]_vars

\* C7: a pop of the empty value stack (POP_TOP, or CALL_FUNCTION with fewer
\* than n+1 handles) ends the run; the loop never goes on after one.
C7_UnderflowFatal == ("pop_empty" \in ub) => (pc \in Rejected)

\* C8: LOAD_CONST with an operand outside [0, len(consts)) is fatal and
\* pushes nothing (stated of the operands whose read stays inside the cell
\* of the tuple, which is defined behaviour).
C8_ConstIndexChecked ==
  [][(/\ AtInstr
      /\ NextInstr.op = LOAD_CONST
      /\ ub' = {}
      /\ ~(NextInstr.oparg >= 0 /\ NextInstr.oparg < co.consts.len))
       => (pc' \in Rejected /\ value_stack' = value_stack)]_vars

\* the 32-bit integer at byte k of the file
FileI32(file, k) == I32OfBytes(Slice(file, k, 4))

\* the first 4 bytes are not "OHP2"
BadMagic(file) == \E k \in 1..kHeaderLen : Len(file) < k \/ file[k] # kHeader[k]

\* one of the reads of Load comes up short: the magic and the two sizes,
\* the slab region of total_slab_size bytes, the num_cells cell records
\* (the sizes being byte and record counts, that is, not negative)
ShortRead(file) ==
  \/ Len(file) < kHeaderLen + 8
  \/ /\ Len(file) >= kHeaderLen + 8
     /\ FileI32(file, kHeaderLen) >= 0
     /\ \/ Len(file) < kHeaderLen + 8 + FileI32(file, kHeaderLen)
        \/ /\ FileI32(file, kHeaderLen + 4) >= 0
           /\ Len(file) < kHeaderLen + 8 + FileI32(file, kHeaderLen)
                            + CellSize * FileI32(file, kHeaderLen + 4)

\* C9: on a wrong magic or a short read Load fails, main returns 1 with the
\* heap as constructed (Init not called, pointers null) and no frame run;
\* a run that failed to load never has a heap.
C9_LoadFailsUninitialised ==
  /\ [][(pc = "load" /\ (BadMagic(f) \/ ShortRead(f)))
          => (/\ pc' = "exit"
              /\ exit_code' = 1
              /\ heap' = EmptyHeap
              /\ call_stack' = 0
              /\ n' = 0)]_vars
  /\ [](exit_code = 1 => (pc = "exit" /\ heap = EmptyHeap /\ ret = "none"))

\* Load failed at the last read, that of the cell records
C9_Witness ==
  pc = "exit" /\ exit_code = 1 /\ heap = EmptyHeap /\ live = {"slabs", "cells"}

\* C10: after a successful Load every slab-backed cell refers into the slab
\* region (Load fails on an offset outside [0, total_slab_size)).
C10_OffsetsInRange ==
  heap.cells_.null
    \/ \A j \in 1..Len(heap.cells_.mem) :
         heap.cells_.mem[j].is_slab # 0
           => (heap.cells_.mem[j].ptr >= 0
               /\ heap.cells_.mem[j].ptr < Len(heap.slabs_.mem))

\* C11: a failed Load leaves no buffer allocated: the slab buffer and the
\* cell table it malloc'd are released before main returns 1.
C11_FailedLoadLeaksNothing == (pc = "exit" /\ exit_code = 1) => live = {}

\* ------------------------------------------------------------------------
\* Frame::LoadName over frames with local bindings.  No code of the program
\* fills Frame::locals_, so the main specification runs LoadName with an
\* empty table only; this specification starts RunFrame's loop on frames
\* whose table is drawn from LocalTables.
\* ------------------------------------------------------------------------
\* the heap after heap->Init with the buffers of a successful Load
HeapOf(r) == [slabs_ |-> r.slabs, num_cells_ |-> r.num_cells, cells_ |-> r.cells]

\* the views RunFrame takes of the last cell
FrameViews(h) ==
  [code |-> CodeView(h, Last(h), 8),
   names |-> CodeView(h, Last(h), 9),
   consts |-> CodeView(h, Last(h), 11)]

\* the handles a name can be bound to
BoundHandles == {0 - 1, 0, H.Name}

\* the tables binding some of the names "print" and "x"
LocalTables ==
  {{<<nm, t[nm]>> : nm \in names} :
     names \in SUBSET {kPrint, kX}, t \in [{kPrint, kX} -> BoundHandles]}

\* LOAD_NAME of "print", of "x" and of the padding of the names tuple
NameInstructions == {<<LOAD_NAME, 0, 0>>, <<LOAD_NAME, 1, 0>>, <<LOAD_NAME, 2, 0>>}

NamePrograms == Programs(NameInstructions, MaxAnyInstr) \ {<<>>}

\* the state at the head of RunFrame's loop
FrameInitWith(h, table) ==
  /\ pc = "frame"
  /\ f = <<>>
  /\ heap = h
  /\ live = {"slabs", "cells"}
  /\ exit_code = 0 - 1
  /\ charSigned = TRUE
  /\ call_stack = 1
  /\ locals = table
  /\ co = FrameViews(h)
  /\ value_stack = <<>>
  /\ i = 0
  /\ n = 0
  /\ op = 0
  /\ oparg = 0
  /\ why = "Not"
  /\ ret = "none"
  /\ out = <<>>
  /\ calls = <<>>
  /\ as_int = DebugStringInts(h, ConstHandles(FrameViews(h).consts))
  /\ ub = {}

NameInit ==
  \E p \in NamePrograms, table \in LocalTables :
    FrameInitWith(HeapOf(Load(FileOf(ImageOf(p, FALSE)))), table)

NameNext ==
  \/ Step
  \/ StepAbort
  \/ Return

NameSpec == NameInit /\ [][NameNext]_vars

\* the handle the priority order gives a name: the local binding, then the
\* built-in "print", then handle 0
ResolvedAs(table, name, h) ==
  /\ \A b \in table : b[1] = name => h = b[2]
  /\ ((\A b \in table : b[1] # name) /\ name = kPrint) => h = 0 - 1
  /\ ((\A b \in table : b[1] # name) /\ name # kPrint) => h = 0

\* C12: a LOAD_NAME of a name cell pushes the handle of the local binding
\* if there is one (also for "print"), else -1 exactly when the name is
\* "print", else 0.
C12_LoadNamePriority ==
  [][(/\ AtInstr
      /\ NextInstr.op = LOAD_NAME
      /\ NextInstr.oparg >= 0
      /\ NextInstr.oparg < co.names.len
      /\ n' = n + 1)
       => (/\ Len(value_stack') = Len(value_stack) + 1
           /\ ResolvedAs(locals, StrOf(HandleAt(co.names, NextInstr.oparg)),
                         value_stack'[Len(value_stack')]))]_vars

\* a local binding of "print" has shadowed the built-in
C12_Witness ==
  /\ pc = "frame"
  /\ <<kPrint, H.Name>> \in locals
  /\ op = LOAD_NAME
  /\ oparg = 0
  /\ value_stack = <<H.Name>>

\* the argument vector of the call func_print has just returned from
LastCall(cs) == cs[Len(cs)]

\* the handles a native CALL_FUNCTION step left on the stack above the
\* callee's place: the result handles of the call
PushedBy(stack, stackAfter, num_args) == Len(stackAfter) - (Len(stack) - num_args - 1)

\* what the claim says of a call with the argument cell `cell`
PrintContract(cell, signal, num_rets, rets) ==
  IF cell.tag # TAG_STR
    THEN signal = "Exception" /\ num_rets = 0 /\ rets = <<>>
    ELSE signal = "Not" /\ num_rets = 1 /\ Len(rets) = 1

\* C13: func_print called with an argument that is not a Str cell returns
\* Exception and appends no result handle; called with a Str cell it
\* returns Not and appends exactly one (stated of the calls whose first
\* argument is a handle of the cell table).
C13_PrintContract ==
  [][(/\ pc = "frame"
      /\ n' = n + 1
      /\ calls' # calls
      /\ ub' = {}
      /\ LastCall(calls') # <<>>
      /\ ValidHandle(heap, LastCall(calls')[1]))
       => PrintContract(CellAt(heap, LastCall(calls')[1]), why',
                        PushedBy(value_stack, value_stack', NumArgs(oparg')),
                        func_print(heap, LastCall(calls'), out, NoGarbage).rets)]_vars

\* print was called with the int constant and RunFrame holds Exception
C13_Witness ==
  /\ pc = "frame"
  /\ ub = {}
  /\ calls = <<<<H.Int>>>>
  /\ why = "Exception"
  /\ value_stack = <<>>
  /\ out = <<>>

\* the byte of the file at which the slab region starts, and the record of
\* cell h in the file
SlabBase == kHeaderLen + 8

FileCell(file, h) ==
  Slice(file, SlabBase + FileI32(file, kHeaderLen) + CellSize * h, CellSize)

\* the encoded content of a record: tag, storage form, length and the byte
\* of the file at which the data start
Encoded(file, rec, at) ==
  [tag |-> I16OfBytes(Slice(rec, 0, 2)),
   len |-> IF rec[3] = 0 THEN rec[4] ELSE FileI32(file, SlabBase + I32OfBytes(Slice(rec, 12, 4))),
   data |-> IF rec[3] = 0 THEN at + 4 ELSE SlabBase + I32OfBytes(Slice(rec, 12, 4)) + 4]

\* the view v reproduces the encoded string e
StrMatches(file, e, v) ==
  /\ v.len = e.len
  /\ (e.len >= 0 /\ e.data + e.len <= Len(file)) => DataBytes(v, v.len) = Slice(file, e.data, e.len)

\* the view v reproduces the encoded tuple e
TupleMatches(file, e, v) ==
  /\ v.len = e.len
  /\ (e.len >= 0 /\ e.data + 4 * e.len <= Len(file))
       => \A k \in 0..(e.len - 1) : HandleAt(v, k) = FileI32(file, e.data + 4 * k)

ViewMatches(file, e, v) ==
  /\ e.tag = TAG_STR => StrMatches(file, e, v)
  /\ e.tag = TAG_TUPLE => TupleMatches(file, e, v)

\* C14: after a successful Load the Str and Tuple views of every cell have
\* the length and the data the file encodes, for inline and for slab-backed
\* cells.
C14_ViewsRoundTrip ==
  [][(pc = "load" /\ pc' = "main" /\ ub' = {})
       => \A h \in 0..(heap'.num_cells_ - 1) :
            ViewMatches(f,
                        Encoded(f, FileCell(f, h),
                                SlabBase + FileI32(f, kHeaderLen) + CellSize * h),
                        CellView(heap', CellAt(heap', h)))]_vars

\* a heap is loaded whose "hello" string and constants tuple are slab-backed
\* and whose names tuple is inline
C14_Witness ==
  /\ pc = "main"
  /\ ub = {}
  /\ heap.num_cells_ > H.Consts
  /\ CellAt(heap, H.Hello).is_slab # 0
  /\ StrOf(H.Hello) = kHello
  /\ CellAt(heap, H.Consts).is_slab # 0
  /\ TupleHandles(CellView(heap, CellAt(heap, H.Consts))) = <<H.Hello>>
  /\ CellAt(heap, H.Names).is_slab = 0
  /\ TupleHandles(CellView(heap, CellAt(heap, H.Names))) = <<H.PrintName>>

\* C15: an opcode at or above HAVE_ARGUMENT takes the operand lo + 256 * hi
\* of the next two bytes as unsigned values and moves the cursor by 3; an
\* opcode below it moves the cursor by 1 (stated of the instructions that
\* lie inside the bytecode).
C15_OperandUnsigned ==
  [][(/\ AtInstr
      /\ n' = n + 1
      /\ "code_wild" \notin ub'
      /\ (At(co.code.mem, i) >= HAVE_ARGUMENT => i + 2 < co.code.len))
       => (/\ op' = At(co.code.mem, i)
           /\ IF op' >= HAVE_ARGUMENT
                THEN /\ oparg' = At(co.code.mem, i + 1) + 256 * At(co.code.mem, i + 2)
                     /\ oparg' \in 0..65535
                     /\ i' = i + 3
                ELSE i' = i + 1)]_vars

\* C16: a typed accessor succeeds exactly when the cell has the tag it
\* expects: every call of OHeap::AsInt(h, out) returns true exactly when
\* cell h is tagged Int.
C16_AsIntChecksIntTag ==
  \A k \in 1..Len(as_int) :
    as_int[k].ok <=> (CellAt(heap, as_int[k].h).tag = TAG_INT)

\* C17: once Load has finished the heap is read-only: a step of RunMain or
\* of RunFrame (LoadName and func_print included) that stays within defined
\* behaviour leaves every cell and every slab byte, the input position and
\* the frame's views of the code object as they were.
C17_HeapReadOnly ==
  [][(pc \in {"main", "frame"} /\ ub' = {})
       => (/\ heap' = heap
           /\ f' = f
           /\ (pc = "frame" => (co' = co /\ locals' = locals)))]_vars

\* func_print has read its argument cell, the frame has returned, and the
\* cell is still the string it was
C17_Witness ==
  /\ pc = "exit"
  /\ exit_code = 0
  /\ ub = {}
  /\ calls # <<>>
  /\ LastCall(calls) # <<>>
  /\ CellAt(heap, LastCall(calls)[1]).tag = TAG_STR
  /\ Len(out) > 0

\* C18: VM::RunFrame terminates for every bytecode string: each iteration
\* of the loop moves the cursor forward by 1 or by 3 and is counted once,
\* so the count never exceeds the cursor nor len(bytecode), and the loop
\* condition fails after at most len(bytecode) iterations: the cursor is
\* then at most 2 past the end, where nothing but the return is possible.
C18_RunFrameTerminates ==
  [][pc = "frame"
       => \/ /\ n' = n + 1
             /\ i < co.code.len
             /\ i' - i \in {1, 3}
             /\ n' <= co.code.len
             /\ n' <= i'
             /\ i' <= co.code.len + 2
             /\ pc' = "frame"
          \/ /\ i < co.code.len
             /\ pc' \in {"aborted", "crashed"}
          \/ /\ i >= co.code.len
             /\ pc' = "exit"
             /\ ret' = why]_vars

\* a frame ran three iterations, one of them raising a signal, and returned
C18_Witness ==
  /\ pc = "exit"
  /\ exit_code = 0
  /\ n >= 3
  /\ i >= co.code.len
  /\ ret # "Not"

\* C19: VM::RunFrame reads no bytecode byte at an index at or beyond
\* len(bytecode): an iteration that starts at cursor i reads the bytes up
\* to the cursor it leaves, so the cursor never exceeds len(bytecode).
C19_CursorWithinCode ==
  [][(pc = "frame" /\ n' = n + 1) => i' <= co.code.len]_vars

\* C20: the native print function never reads an argument that was not
\* passed: when CALL_FUNCTION has dispatched to a negative callee handle
\* with an empty argument sequence, in an execution that made no other
\* undefined access, args[0] has not been read.
C20_PrintReadsPassedArg ==
  (\E k \in 1..Len(calls) : calls[k] = <<>>) /\ ub \subseteq {"args_empty"}
    => "args_empty" \notin ub
====
